---- MODULE Spec2Model ----
(***************************************************************************)
(* Model of projects/allocator/Allocator.h: template class Allocator<T,N>, *)
(* a first-fit boundary-tag allocator over the byte array  char a[N].      *)
(*                                                                         *)
(* The buffer is modelled byte by byte (little-endian 32-bit int           *)
(* sentinels, as on the x86-64 LP64 target of the course), together with   *)
(* Pad bytes of the enclosing object's storage on each side, because the   *)
(* code reads and writes a few bytes outside a[0..N-1].  size_t values are *)
(* 64-bit and are held as four 16-bit limbs so that the unsigned           *)
(* arithmetic of allocate() is computed exactly.                           *)
(***************************************************************************)
EXTENDS Integers, Sequences, FiniteSets, TLC

\* st     "new" before construction, then "ready", "thrown" (the constructor
\*        threw) or "aborted" (an assert failed or an access went wild)
\* N, szT the template arguments N and sizeof(T) of the instantiation
\* a      the bytes of a[0..N-1] and of Pad bytes of storage on each side
\* out    the pointers allocate returned that are not yet deallocated, each
\*        with the count it was requested with
\* res    what the last call was and how it ended
\* pre    the block sequence before the last allocate that found a block
\* calls  the number of allocate/deallocate calls made
\* scen   progress along the N = 100 scenario
\* freed  the pointers successfully deallocated since the last allocate
VARIABLES st, N, szT, a, out, res, pre, calls, scen, freed

vars == <<st, N, szT, a, out, res, pre, calls, scen, freed>>

\* ------------------------------------------------------------------ bounds
\* bytes of surrounding storage modelled on each side of a[]
Pad == 8
\* largest small request count tried by allocate
MaxCount == 3
\* cap on the number of allocate/deallocate calls in one run on the largest
\* buffer
MaxCalls == 4
\* cap on the number of allocate/deallocate calls in one run on the other
\* buffers
DeepCalls == 5

\* ------------------------------------------------------- program constants
\* sizeof(int)
SizeofInt == 4

\* (N, sizeof(T)) instantiations explored
Configs == { <<7, 1>>, <<11, 4>>, <<12, 4>>, <<15, 8>>, <<16, 4>>, <<30, 1>>,
             <<48, 8>>, <<100, 4>> }

\* contents of storage that has never been written (indeterminate bytes)
Fills == {0, 255}

\* ------------------------------------------------------ 32-bit int codec
abs(x) == IF x < 0 THEN 0 - x ELSE x

\* byte k (0..3) of the two's-complement little-endian image of int v
IntByte(v, k) == (v \div (256 ^ k)) % 256

\* *(int*)(a + i)
RdInt(mem, i) ==
    LET b3 == mem[i + 3]
    IN  mem[i] + 256 * mem[i + 1] + 65536 * mem[i + 2]
        + 16777216 * (IF b3 >= 128 THEN b3 - 256 ELSE b3)

\* *(int*)(a + i) = v
WrInt(mem, i, v) ==
    [mem EXCEPT ![i]     = IntByte(v, 0), ![i + 1] = IntByte(v, 1),
                ![i + 2] = IntByte(v, 2), ![i + 3] = IntByte(v, 3)]

write_sentinel_to_arr(mem, dest, src) == WrInt(mem, dest, src)

\* the int at offset i lies in the modelled storage.  An access that does not
\* leaves the storage of the enclosing object: the call has no defined
\* behaviour and the run ends there with outcome "wild".
InStorage(mem, i) == i \in DOMAIN mem /\ (i + SizeofInt - 1) \in DOMAIN mem

\* ------------------------------------------------- 64-bit size_t, 4 limbs
Base == 2 ^ 16

SzFromNat(k) == <<k % Base, k \div Base, 0, 0>>

\* conversion int -> size_t (sign extension)
SzFromInt(v) ==
    IF v >= 0 THEN SzFromNat(v)
    ELSE <<v % Base, (v \div Base) % Base, Base - 1, Base - 1>>

\* conversion size_t -> int (truncation to the low 32 bits)
SzToInt(x) == x[1] + Base * (IF x[2] >= Base \div 2 THEN x[2] - Base ELSE x[2])

SzIsZero(x) == x = <<0, 0, 0, 0>>

SzAdd(x, y) ==
    LET s1 == x[1] + y[1]
        s2 == x[2] + y[2] + s1 \div Base
        s3 == x[3] + y[3] + s2 \div Base
        s4 == x[4] + y[4] + s3 \div Base
    IN  <<s1 % Base, s2 % Base, s3 % Base, s4 % Base>>

SzSub(x, y) ==
    LET d1 == x[1] - y[1]
        d2 == x[2] - y[2] + d1 \div Base
        d3 == x[3] - y[3] + d2 \div Base
        d4 == x[4] - y[4] + d3 \div Base
    IN  <<d1 % Base, d2 % Base, d3 % Base, d4 % Base>>

\* x * k for a small k
SzMul(x, k) ==
    LET m1 == x[1] * k
        m2 == x[2] * k + m1 \div Base
        m3 == x[3] * k + m2 \div Base
        m4 == x[4] * k + m3 \div Base
    IN  <<m1 % Base, m2 % Base, m3 % Base, m4 % Base>>

\* -1 * x in size_t
SzNeg(x) == SzSub(<<0, 0, 0, 0>>, x)

\* unsigned x >= y
SzGe(x, y) ==
    IF x[4] # y[4] THEN x[4] > y[4]
    ELSE IF x[3] # y[3] THEN x[3] > y[3]
    ELSE IF x[2] # y[2] THEN x[2] > y[2]
    ELSE x[1] >= y[1]

\* ------------------------------------------------------------- valid()
\* the scan of valid(): "true", "false", or "wild" when it reads outside the
\* modelled storage
RECURSIVE valid_loop(_, _, _, _, _)
valid_loop(mem, n, s, i, can_be_free) ==
    IF ~(i < n - SizeofInt) THEN "true"
    ELSE LET h    == RdInt(mem, i)
             diff == abs(h) + SizeofInt
         IN  IF ~InStorage(mem, i + diff) THEN "wild"
             ELSE IF h # RdInt(mem, i + diff) THEN "false"
             ELSE IF h > 0
                  THEN IF ~can_be_free THEN "false"
                       ELSE IF h < s THEN "false"
                       ELSE valid_loop(mem, n, s, i + diff + SizeofInt, FALSE)
                  ELSE valid_loop(mem, n, s, i + diff + SizeofInt, TRUE)

valid(mem, n, s) == valid_loop(mem, n, s, 0, TRUE) = "true"

\* the offset at which the loop of valid() ends when no check makes it
\* return early: the first i of the traversal with i >= N - sizeof(int)
RECURSIVE valid_end(_, _, _)
valid_end(mem, n, i) ==
    IF ~(i < n - SizeofInt) THEN i
    ELSE valid_end(mem, n, i + 2 * SizeofInt + abs(RdInt(mem, i)))

\* assert(valid()): the outcome of a call that has just rewritten the buffer
assert_valid(mem, n, s) ==
    LET v == valid_loop(mem, n, s, 0, TRUE)
    IN  IF v = "true" THEN "ok" ELSE IF v = "false" THEN "assert" ELSE "wild"

\* --------------------------------------------------------- Allocator()
\* storage of the object before the constructor body runs
Storage(n, fill) == [x \in (0 - Pad) .. (n + Pad - 1) |-> fill]

\* the constructor with the footer one sentinel too low
Allocator_LowFooter(n, s, fill) ==
    IF n < s + 2 * SizeofInt
    THEN [mem |-> Storage(n, fill), outcome |-> "bad_alloc"]
    ELSE LET avail == n - 2 * SizeofInt
             m1    == write_sentinel_to_arr(Storage(n, fill), 0, avail)
             m2    == write_sentinel_to_arr(m1, n - 2 * SizeofInt, avail)
         IN  [mem |-> m2, outcome |-> assert_valid(m2, n, s)]

\* the constructor: [mem, outcome]
Allocator(n, s, fill) ==
    IF n < s + 2 * SizeofInt
    THEN [mem |-> Storage(n, fill), outcome |-> "bad_alloc"]
    ELSE LET avail == n - 2 * SizeofInt
             m1    == write_sentinel_to_arr(Storage(n, fill), 0, avail)
             m2    == write_sentinel_to_arr(m1, n - SizeofInt, avail)
         IN  [mem |-> m2,
              outcome |-> assert_valid(m2, n, s)]

\* ------------------------------------------------------------ allocate
\* the split test of line 246, in size_t arithmetic
SplitTest(h, nb, s) ==
    SzGe(SzSub(SzFromInt(h), SzAdd(nb, SzFromNat(2 * SizeofInt))),
         SzFromNat(s + 2 * SizeofInt))

\* the block-selection test of line 244
FitTest(h, nb) == SzGe(SzFromInt(h), nb) /\ h > 0

\* lines 246-259: rewrite the selected block at offset i; [mem, wild]
Carve(mem, i, nb, s) ==
    LET old == RdInt(mem, i)
        n32 == SzToInt(nb)
    IN  IF SplitTest(old, nb, s)
        THEN LET neg  == SzToInt(SzNeg(nb))
                 rest == SzToInt(SzSub(SzSub(SzFromInt(old), nb),
                                       SzFromNat(2 * SizeofInt)))
                 m1 == WrInt(mem, i, neg)
                 m2 == WrInt(m1, i + SizeofInt + n32, neg)
                 m3 == WrInt(m2, i + 2 * SizeofInt + n32, rest)
                 m4 == WrInt(m3, i + old + SizeofInt, rest)
             IN  [mem |-> m4,
                  wild |-> ~ /\ InStorage(mem, i + 2 * SizeofInt + n32)
                             /\ InStorage(mem, i + old + SizeofInt)]
        ELSE LET m1 == WrInt(mem, i, 0 - old)
                 m2 == WrInt(m1, i + SizeofInt + old, 0 - old)
             IN  [mem |-> m2, wild |-> ~InStorage(mem, i + SizeofInt + old)]

RECURSIVE allocate_loop(_, _, _, _, _)
allocate_loop(mem, n, s, nb, i) ==
    IF ~(i < n) THEN [mem |-> mem, outcome |-> "bad_alloc", ret |-> 0]
    ELSE LET h == RdInt(mem, i)
         IN  IF FitTest(h, nb)
             THEN LET c == Carve(mem, i, nb, s)
                  IN  [mem |-> c.mem,
                       outcome |-> IF c.wild THEN "wild"
                                   ELSE assert_valid(c.mem, n, s),
                       ret |-> i + SizeofInt]
             ELSE allocate_loop(mem, n, s, nb, i + 2 * SizeofInt + abs(h))

\* allocate(count): [mem, outcome, ret]
allocate(mem, n, s, count) ==
    LET nb == SzMul(count, s)
    IN  IF SzIsZero(nb)
        THEN [mem |-> mem, outcome |-> "bad_alloc", ret |-> 0]
        ELSE allocate_loop(mem, n, s, nb, 0)

\* ------------------------------------------------------- pointer_valid
RECURSIVE pointer_valid_loop(_, _, _, _)
pointer_valid_loop(mem, n, p, i) ==
    IF ~(i < n) THEN FALSE
    ELSE LET size == abs(RdInt(mem, i))
             j    == i + SizeofInt
         IN  IF j = p THEN TRUE
             ELSE IF j > p THEN FALSE
             ELSE pointer_valid_loop(mem, n, p, j + size + SizeofInt)

pointer_valid(mem, n, p) == pointer_valid_loop(mem, n, p, 0)

\* ---------------------------------------------------------- deallocate
\* lines 309-319: merge with the block on the left; [mem, size, pc, wild, rd]
\* rd is the offset of the int the test of line 310 reads
MergeLeft(mem, n, p, size) ==
    LET pc == p + size - (size + 2 * SizeofInt)
    IN  IF ~InStorage(mem, pc)
        THEN [mem |-> mem, size |-> size, pc |-> pc, wild |-> TRUE, rd |-> pc]
        ELSE IF RdInt(mem, pc) > 0 /\ pc >= 0
        THEN LET sum == RdInt(mem, pc) + size + 2 * SizeofInt
                 pc1 == pc - (sum - size - SizeofInt)
                 m1  == WrInt(mem, pc1, sum)
                 pc2 == pc1 + sum + SizeofInt
                 m2  == WrInt(m1, pc2, sum)
             IN  [mem |-> m2, size |-> sum, pc |-> pc2 - (sum + 2 * SizeofInt),
                  wild |-> ~(InStorage(mem, pc1) /\ InStorage(mem, pc2)),
                  rd |-> pc]
        ELSE [mem |-> mem, size |-> size, pc |-> pc, wild |-> FALSE, rd |-> pc]

\* deallocate without the merge with the block on the right
MergeRight_Skipped(mem, n, pc0, size) ==
    [mem |-> mem, wild |-> FALSE, rd |-> pc0 + size + 3 * SizeofInt]

\* a merge to the right that leaves out the sign test of line 322 and so
\* swallows an in-use block on the right as well
MergeRight_AnySign(mem, n, pc0, size) ==
    LET pc == pc0 + size + 3 * SizeofInt
    IN  IF ~InStorage(mem, pc) THEN [mem |-> mem, wild |-> TRUE, rd |-> pc]
        ELSE IF pc < n
        THEN LET sum == abs(RdInt(mem, pc)) + size + 2 * SizeofInt
                 pc1 == pc + (sum - size - SizeofInt)
                 m1  == WrInt(mem, pc1, sum)
                 pc2 == pc1 - (sum + SizeofInt)
                 m2  == WrInt(m1, pc2, sum)
             IN  [mem |-> m2,
                  wild |-> ~(InStorage(mem, pc1) /\ InStorage(mem, pc2)),
                  rd |-> pc]
        ELSE [mem |-> mem, wild |-> FALSE, rd |-> pc]

\* lines 321-330: merge with the block on the right; [mem, wild, rd]
\* rd is the offset of the int the test of line 322 reads
MergeRight(mem, n, pc0, size) ==
    LET pc == pc0 + size + 3 * SizeofInt
    IN  IF ~InStorage(mem, pc) THEN [mem |-> mem, wild |-> TRUE, rd |-> pc]
        ELSE IF RdInt(mem, pc) > 0 /\ pc < n
        THEN LET sum == RdInt(mem, pc) + size + 2 * SizeofInt
                 pc1 == pc + (sum - size - SizeofInt)
                 m1  == WrInt(mem, pc1, sum)
                 pc2 == pc1 - (sum + SizeofInt)
                 m2  == WrInt(m1, pc2, sum)
             IN  [mem |-> m2,
                  wild |-> ~(InStorage(mem, pc1) /\ InStorage(mem, pc2)),
                  rd |-> pc]
        ELSE [mem |-> mem, wild |-> FALSE, rd |-> pc]

\* a deallocate without the sign test of line 301: freeing a block that is
\* already free returns normally and does nothing
deallocate_NoSignTest(mem, n, s, p) ==
    IF ~pointer_valid(mem, n, p)
    THEN [mem |-> mem, outcome |-> "invalid_argument", probes |-> {}]
    ELSE IF RdInt(mem, p - SizeofInt) > 0
    THEN [mem |-> mem, outcome |-> "ok", probes |-> {}]
    ELSE LET size == 0 - RdInt(mem, p - SizeofInt)
             m1   == WrInt(mem, p - SizeofInt, size)
             m2   == WrInt(m1, p + size, size)
             l    == MergeLeft(m2, n, p, size)
             r    == MergeRight(l.mem, n, l.pc, l.size)
         IN  IF ~InStorage(mem, p + size)
             THEN [mem |-> m2, outcome |-> "wild", probes |-> {}]
             ELSE IF l.wild
             THEN [mem |-> m2, outcome |-> "wild", probes |-> {l.rd}]
             ELSE IF r.wild
             THEN [mem |-> l.mem, outcome |-> "wild", probes |-> {l.rd, r.rd}]
             ELSE [mem |-> r.mem, outcome |-> assert_valid(r.mem, n, s),
                   probes |-> {l.rd, r.rd}]

\* deallocate(p, n): [mem, outcome, probes]
\* probes: the offsets of the ints read by the neighbour tests of lines 310
\* and 322
deallocate(mem, n, s, p) ==
    IF ~pointer_valid(mem, n, p) \/ RdInt(mem, p - SizeofInt) > 0
    THEN [mem |-> mem, outcome |-> "invalid_argument", probes |-> {}]
    ELSE LET size == 0 - RdInt(mem, p - SizeofInt)
             m1   == WrInt(mem, p - SizeofInt, size)
             m2   == WrInt(m1, p + size, size)
             l    == MergeLeft(m2, n, p, size)
             r    == MergeRight(l.mem, n, l.pc, l.size)
         IN  IF ~InStorage(mem, p + size)
             THEN [mem |-> m2, outcome |-> "wild", probes |-> {}]
             ELSE IF l.wild
             THEN [mem |-> m2, outcome |-> "wild", probes |-> {l.rd}]
             ELSE IF r.wild
             THEN [mem |-> l.mem, outcome |-> "wild", probes |-> {l.rd, r.rd}]
             ELSE [mem |-> r.mem, outcome |-> assert_valid(r.mem, n, s),
                   probes |-> {l.rd, r.rd}]

\* ------------------------------------------------------- block sequence
\* the blocks met by scanning from offset 0 in steps of |header| + 2*sizeof(int)
RECURSIVE BlocksFrom(_, _, _)
BlocksFrom(mem, n, i) ==
    IF ~(i < n) THEN <<>>
    ELSE LET h == RdInt(mem, i)
         IN  <<[off |-> i, hdr |-> h]>>
             \o BlocksFrom(mem, n, i + 2 * SizeofInt + abs(h))

Blocks == BlocksFrom(a, N, 0)

\* the bytes a[0..N-1]
Buffer(mem, n) == [x \in 0 .. (n - 1) |-> mem[x]]

\* ------------------------------------------------------------- inputs
Counts ==
    { SzFromNat(k) : k \in 0 .. MaxCount }
    \cup { SzFromNat(5) }
    \cup { SzNeg(SzFromNat(1)),           \* (size_t) -1
           <<1, 0, 0, Base \div 2>>,      \* (size_t) (INT64_MIN + 1)
           <<1, 0, 0, Base \div 4>> }     \* 2^62 + 1

\* pointer arguments are T*: aligned like the payload starts allocate returns
IsPointer(p) ==
    /\ st = "ready"
    /\ 0 - Pad <= p /\ p <= N + Pad
    /\ (p - SizeofInt) % szT = 0

\* every offset that is a pointer argument under some instantiation
LargestN == CHOOSE n \in { c[1] : c \in Configs } :
                \A c \in Configs : c[1] <= n

PointerRange == (0 - Pad) .. (LargestN + Pad)

Pointers == { p \in PointerRange : IsPointer(p) }

\* a count whose sign bit is set: a negative argument converted to size_t
IsNegative(c) == c[4] >= Base \div 2

\* ------------------------------------------------------- state machine
NoRes == [op |-> "none", outcome |-> "none"]

\* progress of the run along the calls of the N = 100 scenario:
\* k = 0 the run is not (or no longer) the scenario, k = 1..5 that many of its
\* calls have been made and nothing else, k = -1 one of its calls failed
NoScen == [k |-> 0, p1 |-> 0, p2 |-> 0]

BadScen == [k |-> 0 - 1, p1 |-> 0, p2 |-> 0]

\* the number of calls a run on this buffer may make
Budget == IF N = LargestN THEN MaxCalls ELSE DeepCalls

Init ==
    /\ st = "new"
    /\ N = 0
    /\ szT = 0
    /\ a = <<>>
    /\ out = <<>>
    /\ res = NoRes
    /\ pre = <<>>
    /\ calls = 0
    /\ scen = NoScen
    /\ freed = {}

Construct(cfg, fill) ==
    /\ st = "new"
    /\ \E r \in {Allocator(cfg[1], cfg[2], fill)} :
           /\ a' = r.mem
           /\ st' = IF r.outcome = "ok" THEN "ready"
                    ELSE IF r.outcome = "bad_alloc" THEN "thrown"
                    ELSE "aborted"
           /\ res' = [op |-> "Allocator", outcome |-> r.outcome]
           /\ scen' = IF cfg = <<100, 4>>
                      THEN IF r.outcome = "ok"
                           THEN [NoScen EXCEPT !.k = 1] ELSE BadScen
                      ELSE NoScen
    /\ N' = cfg[1]
    /\ szT' = cfg[2]
    /\ UNCHANGED <<out, pre, calls, freed>>

Allocate(c) ==
    /\ st = "ready"
    /\ calls < Budget
    /\ \E r \in {allocate(a, N, szT, c)} :
           /\ a' = r.mem
           /\ st' = IF r.outcome \in {"assert", "wild"} THEN "aborted" ELSE st
           /\ res' = [op |-> "allocate", outcome |-> r.outcome,
                      count |-> c, ret |-> r.ret]
           /\ out' = IF r.outcome = "ok"
                     THEN [x \in DOMAIN out \cup {r.ret} |->
                              IF x = r.ret THEN c ELSE out[x]]
                     ELSE out
           /\ pre' = IF r.outcome = "bad_alloc" THEN <<>> ELSE Blocks
           /\ scen' = IF scen.k = 1 /\ c = SzFromNat(1)
                      THEN IF r.outcome = "ok"
                           THEN [scen EXCEPT !.k = 2, !.p1 = r.ret]
                           ELSE BadScen
                      ELSE IF scen.k = 2 /\ c = SzFromNat(5)
                      THEN IF r.outcome = "ok"
                           THEN [scen EXCEPT !.k = 3, !.p2 = r.ret]
                           ELSE BadScen
                      ELSE NoScen
    /\ calls' = calls + 1
    /\ freed' = {}
    /\ UNCHANGED <<N, szT>>

\* this deallocate(p) frees the pointer the immediately preceding call,
\* a successful allocate, returned
FollowsAllocate(p, outcome) ==
    /\ res.op = "allocate" /\ res.outcome = "ok" /\ res.ret = p
    /\ outcome # "invalid_argument"

Deallocate(p) ==
    /\ IsPointer(p)
    /\ calls < Budget
    /\ \E r \in {deallocate(a, N, szT, p)} :
           /\ a' = r.mem
           /\ st' = IF r.outcome \in {"assert", "wild"} THEN "aborted" ELSE st
           /\ res' = [op |-> "deallocate", outcome |-> r.outcome,
                      p |-> p, rt |-> FollowsAllocate(p, r.outcome),
                      probes |-> r.probes]
           /\ out' = IF r.outcome = "ok"
                     THEN [x \in DOMAIN out \ {p} |-> out[x]]
                     ELSE out
           /\ pre' = IF FollowsAllocate(p, r.outcome) THEN pre ELSE <<>>
           /\ scen' = IF scen.k = 3 /\ p = scen.p1
                      THEN IF r.outcome = "ok"
                           THEN [scen EXCEPT !.k = 4] ELSE BadScen
                      ELSE IF scen.k = 4 /\ p = scen.p2
                      THEN IF r.outcome = "ok"
                           THEN [scen EXCEPT !.k = 5] ELSE BadScen
                      ELSE NoScen
           /\ freed' = IF r.outcome = "ok" THEN freed \cup {p} ELSE freed
    /\ calls' = calls + 1
    /\ UNCHANGED <<N, szT>>

Next ==
    \/ \E cfg \in Configs, fill \in Fills : Construct(cfg, fill)
    \/ \E c \in Counts : Allocate(c)
    \/ \E p \in PointerRange : Deallocate(p)

Spec == Init /\ [][Next]_vars

\* ------------------------------------------------ vocabulary of the claims
\* the allocator object exists (its constructor returned or a call aborted)
Constructed == st \in {"ready", "aborted"}

\* the offset at which the block scan from offset i stops
RECURSIVE ScanEnd(_, _, _)
ScanEnd(mem, n, i) ==
    IF ~(i < n) THEN i
    ELSE ScanEnd(mem, n, i + 2 * SizeofInt + abs(RdInt(mem, i)))

\* the mathematical product count * s is at most len (no wrap-around)
FitsIn(count, s, len) ==
    /\ count[2] = 0 /\ count[3] = 0 /\ count[4] = 0
    /\ count[1] * s <= len

\* some free block met by the scan has room for count objects of size s
HasFit(count) ==
    \E k \in 1 .. Len(Blocks) :
        Blocks[k].hdr > 0 /\ FitsIn(count, szT, Blocks[k].hdr)

\* ---------------------------------------------------------------- claims

\* C1: after every call on a constructed allocator, valid() returns true.
C1_ValidAfterEveryCall == Constructed => valid(a, N, szT)

\* C2: after construction and after every returned call the blocks tile the
\* buffer: the scan from offset 0 ends exactly at offset N.
C2_BlocksTileBuffer == st = "ready" => ScanEnd(a, N, 0) = N

\* C4: construction throws bad_alloc exactly when N < sizeof(T) + 2*sizeof(int);
\* otherwise the buffer is one free block of payload N - 2*sizeof(int), header
\* at offset 0 and footer at offset N - sizeof(int), and valid() holds.
C4_Construction ==
    res.op = "Allocator" =>
        /\ (res.outcome = "bad_alloc") = (N < szT + 2 * SizeofInt)
        /\ res.outcome \in {"bad_alloc", "ok"}
        /\ res.outcome = "ok" =>
              /\ st = "ready"
              /\ Blocks = <<[off |-> 0, hdr |-> N - 2 * SizeofInt]>>
              /\ RdInt(a, 0) = N - 2 * SizeofInt
              /\ RdInt(a, N - SizeofInt) = N - 2 * SizeofInt
              /\ valid(a, N, szT)

C4_Witness ==
    /\ res.op = "Allocator" /\ res.outcome = "ok"
    /\ N = szT + 2 * SizeofInt

\* C3: the payload spans of the outstanding allocations are pairwise disjoint,
\* lie inside [0, N), are each at least count*sizeof(T) bytes long, and contain
\* no header or footer sentinel of a current block.
SpanLen(p) == abs(RdInt(a, p - SizeofInt))

\* the byte ranges [x, x + m) and [y, y + k) do not meet
Apart(x, m, y, k) == x + m <= y \/ y + k <= x

C3_OutstandingSpans ==
    st = "ready" =>
        \A p \in DOMAIN out :
            /\ 0 <= p /\ p + SpanLen(p) <= N
            /\ FitsIn(out[p], szT, SpanLen(p))
            /\ \A q \in DOMAIN out \ {p} : Apart(p, SpanLen(p), q, SpanLen(q))
            /\ \A k \in 1 .. Len(Blocks) :
                  /\ Apart(p, SpanLen(p), Blocks[k].off, SizeofInt)
                  /\ Apart(p, SpanLen(p),
                           Blocks[k].off + SizeofInt + abs(Blocks[k].hdr),
                           SizeofInt)

\* C5: for every positive count that fits some free block, allocate(count)
\* returns the payload start of a block now marked in-use whose payload is
\* count*sizeof(T) after a split and at least that when consumed whole.
C5_AllocateSucceeds ==
    [][\A c \in Counts :
          (Allocate(c) /\ ~SzIsZero(c) /\ HasFit(c)) =>
              /\ res'.outcome = "ok"
              /\ \E k \in 1 .. Len(Blocks') :
                    /\ Blocks'[k].off + SizeofInt = res'.ret
                    /\ Blocks'[k].hdr < 0
                    /\ RdInt(a', res'.ret + abs(Blocks'[k].hdr)) = Blocks'[k].hdr
                    /\ FitsIn(c, szT, abs(Blocks'[k].hdr))
                    /\ Len(Blocks') > Len(Blocks) =>
                          FitsIn(SzFromNat(abs(Blocks'[k].hdr)), 1, c[1] * szT)
      ]_vars

\* C6: allocate(count) throws bad_alloc and leaves the buffer unchanged when
\* count is 0, and when count is positive but no free block has room for it.
C6_AllocateFails ==
    [][\A c \in Counts :
          (Allocate(c) /\ (SzIsZero(c) \/ (~IsNegative(c) /\ ~HasFit(c)))) =>
              /\ res'.outcome = "bad_alloc"
              /\ Buffer(a', N) = Buffer(a, N)
      ]_vars

\* C7: for every negative count (sign bit set in size_type) allocate throws
\* bad_alloc and leaves the buffer unchanged.
C7_AllocateNegative ==
    [][\A c \in Counts :
          (Allocate(c) /\ IsNegative(c)) =>
              /\ res'.outcome = "bad_alloc"
              /\ Buffer(a', N) = Buffer(a, N)
      ]_vars

\* C8: deallocate(p) throws invalid_argument and leaves the buffer unchanged
\* for every p that is not the payload start of an outstanding allocation.
C8_DeallocateRejects ==
    [][\A p \in Pointers :
          (Deallocate(p) /\ p \notin DOMAIN out) =>
              /\ res'.outcome = "invalid_argument"
              /\ Buffer(a', N) = Buffer(a, N)
      ]_vars

\* C9: deallocate(p) right after p = allocate(count) restores the sequence of
\* blocks (offsets, payload sizes, signs) that preceded the allocate.
C9_RoundTrip ==
    (res.op = "deallocate" /\ res.rt) =>
        /\ res.outcome = "ok"
        /\ Blocks = pre

\* C10: the scenario sizeof(T) = 4, N = 100: construct, p1 = allocate(1),
\* p2 = allocate(5), deallocate(p1), deallocate(p2) passes through the layouts
\* [free 92], [used 4][free 80], [used 4][used 20][free 52],
\* [free 4][used 20][free 52] and ends with the single free block of payload 92.
C10_Scenario ==
    /\ scen.k # 0 - 1
    /\ scen.k > 0 => st = "ready" /\ valid(a, N, szT)
    /\ scen.k = 1 => Blocks = <<[off |-> 0, hdr |-> 92]>>
    /\ scen.k = 2 => /\ Blocks = <<[off |-> 0, hdr |-> 0 - 4],
                                   [off |-> 12, hdr |-> 80]>>
                     /\ scen.p1 = 4
    /\ scen.k = 3 => /\ Blocks = <<[off |-> 0, hdr |-> 0 - 4],
                                   [off |-> 12, hdr |-> 0 - 20],
                                   [off |-> 40, hdr |-> 52]>>
                     /\ scen.p2 = 16
    /\ scen.k = 4 => Blocks = <<[off |-> 0, hdr |-> 4],
                                [off |-> 12, hdr |-> 0 - 20],
                                [off |-> 40, hdr |-> 52]>>
    /\ scen.k = 5 => /\ Blocks = <<[off |-> 0, hdr |-> 92]>>
                     /\ RdInt(a, N - SizeofInt) = 92

C10_Witness == scen.k = 5 /\ res.op = "deallocate" /\ res.outcome = "ok"

\* C11: whenever no allocation is outstanding (every pointer allocate returned
\* has been deallocated) the buffer is exactly one free block of payload
\* N - 2*sizeof(int), as right after construction.
C11_NothingLost ==
    (st = "ready" /\ DOMAIN out = {}) =>
        /\ Blocks = <<[off |-> 0, hdr |-> N - 2 * SizeofInt]>>
        /\ RdInt(a, N - SizeofInt) = N - 2 * SizeofInt

\* the call just made selected the block whose header is at offset
\* res'.ret - sizeof(int); P is that block's payload before the call
SelectedOff(r) == r.ret - SizeofInt

\* C12: when allocate selects a free block of payload P for a request of
\* R = count*sizeof(T) bytes it splits exactly when
\* P - R >= 2*sizeof(int) + sizeof(T); on a split header and footer of the
\* selected block become -R and a free block with header and footer
\* P - R - 2*sizeof(int) follows it; otherwise header and footer become -P.
C12_SplitRule ==
    [][\A c \in Counts :
          (/\ Allocate(c)
           /\ res'.outcome \in {"ok", "assert"}
           /\ FitsIn(c, szT, RdInt(a, SelectedOff(res')))) =>
              LET off == SelectedOff(res')
                  P   == RdInt(a, off)
                  R   == c[1] * szT
              IN  IF P - R >= 2 * SizeofInt + szT
                  THEN /\ RdInt(a', off) = 0 - R
                       /\ RdInt(a', off + SizeofInt + R) = 0 - R
                       /\ RdInt(a', off + 2 * SizeofInt + R)
                              = P - R - 2 * SizeofInt
                       /\ RdInt(a', off + SizeofInt + P)
                              = P - R - 2 * SizeofInt
                  ELSE /\ RdInt(a', off) = 0 - P
                       /\ RdInt(a', off + SizeofInt + P) = 0 - P
      ]_vars

\* C13: when the selected free block of payload P leaves, for a request of R
\* bytes, too little to stand alone as a free block (P - R below
\* 2*sizeof(int) + sizeof(T), the exact fit P = R and every
\* P - R < 2*sizeof(int) included) the block is consumed whole: header and
\* footer become -P and no other byte of the storage changes.
C13_ConsumeWhole ==
    [][(/\ calls' = calls + 1
        /\ res'.op = "allocate"
        /\ res'.outcome \in {"ok", "assert"}
        /\ FitsIn(res'.count, szT, RdInt(a, SelectedOff(res')))
        /\ RdInt(a, SelectedOff(res')) - res'.count[1] * szT
               < 2 * SizeofInt + szT) =>
           LET off == SelectedOff(res')
               P   == RdInt(a, off)
           IN  a' = WrInt(WrInt(a, off, 0 - P), off + SizeofInt + P, 0 - P)
      ]_vars

\* C14: a successful allocate writes only inside the span of the block it
\* selected, [off, off + P + 2*sizeof(int)): every byte of the storage
\* outside that span, the bytes at offsets >= N included, is unchanged.
C14_AllocateFrame ==
    [][(/\ calls' = calls + 1
        /\ res'.op = "allocate"
        /\ res'.outcome = "ok") =>
           LET off == SelectedOff(res')
               P   == RdInt(a, off)
           IN  /\ off + P + 2 * SizeofInt <= N
               /\ \A x \in DOMAIN a :
                      (x < off \/ x >= off + P + 2 * SizeofInt) =>
                          a'[x] = a[x]
      ]_vars

\* C15: first fit: on every successful allocate(count) the selected block is
\* a free block whose payload is >= count*sizeof(T), and no free block at a
\* lower offset has a payload >= count*sizeof(T).
C15_FirstFit ==
    [][(/\ calls' = calls + 1
        /\ res'.op = "allocate"
        /\ res'.outcome = "ok") =>
           \E k \in 1 .. Len(Blocks) :
               /\ Blocks[k].off = SelectedOff(res')
               /\ Blocks[k].hdr > 0
               /\ FitsIn(res'.count, szT, Blocks[k].hdr)
               /\ \A j \in 1 .. (k - 1) :
                      ~(/\ Blocks[j].hdr > 0
                        /\ FitsIn(res'.count, szT, Blocks[j].hdr))
      ]_vars

\* the header offset and the payload of the free block that freeing block k
\* of the block sequence bs must give: <<offset, payload>>
Merged(bs, k) ==
    LET left  == k > 1 /\ bs[k - 1].hdr > 0
        right == k < Len(bs) /\ bs[k + 1].hdr > 0
    IN  << IF left THEN bs[k - 1].off ELSE bs[k].off,
           abs(bs[k].hdr)
           + (IF left THEN bs[k - 1].hdr + 2 * SizeofInt ELSE 0)
           + (IF right THEN bs[k + 1].hdr + 2 * SizeofInt ELSE 0) >>

\* C16: a successful deallocate(p) of block B marks B free and coalesces it
\* with each free neighbour: with a free left neighbour the payload grows by
\* left_size + 2*sizeof(int) and the header is the left block's header, with
\* a free right neighbour it grows by right_size + 2*sizeof(int) up to the
\* right block's footer; afterwards neither neighbour of the resulting free
\* block is free, and no byte outside the merged span has changed.
C16_Coalesce ==
    [][(/\ calls' = calls + 1
        /\ res'.op = "deallocate"
        /\ res'.outcome = "ok") =>
           \E bs \in {Blocks}, bt \in {BlocksFrom(a', N, 0)} :
           \E k \in 1 .. Len(bs) :
           \E mg \in {Merged(bs, k)} :
               /\ bs[k].off = res'.p - SizeofInt
               /\ bs[k].hdr < 0
               /\ RdInt(a', mg[1]) = mg[2]
               /\ RdInt(a', mg[1] + SizeofInt + mg[2]) = mg[2]
               /\ \E m \in 1 .. Len(bt) :
                      /\ bt[m].off = mg[1]
                      /\ m > 1 => ~(bt[m - 1].hdr > 0)
                      /\ m < Len(bt) => ~(bt[m + 1].hdr > 0)
               /\ \A x \in DOMAIN a :
                      (x < mg[1] \/ x >= mg[1] + mg[2] + 2 * SizeofInt) =>
                          a'[x] = a[x]
      ]_vars

\* a deallocate that merged the freed block with a free block on each side
C16_Witness ==
    /\ res.op = "deallocate" /\ res.outcome = "ok" /\ st = "ready"
    /\ \E k \in 1 .. Len(Blocks) :
           /\ Blocks[k].hdr > 0
           /\ Blocks[k].off < res.p - SizeofInt
           /\ Blocks[k].off + Blocks[k].hdr + SizeofInt
                  > res.p + RdInt(a, res.p - SizeofInt)

\* C17: deallocate never reads outside the buffer while it looks for a
\* neighbour: for a block whose header is at offset 0 no int at a negative
\* offset is read, and for a block whose footer ends at offset N no int at
\* an offset >= N is read.
C17_DeallocateInBounds ==
    res.op = "deallocate" =>
        \A x \in res.probes : 0 <= x /\ x + SizeofInt <= N

\* C18: valid() returns true only if its block traversal from offset 0
\* consumes the buffer exactly, ending at byte N; when the traversal stops
\* before N or steps past N, valid() returns false.
C18_ValidConsumesExactly ==
    (Constructed /\ valid(a, N, szT)) => valid_end(a, N, 0) = N

\* C19: double free: once deallocate(p) has succeeded, a further deallocate(p)
\* with no allocate in between throws invalid_argument and leaves the storage
\* unchanged, whether the freed block stands alone (p is a free block's
\* payload start) or was coalesced into its left neighbour (p is no longer a
\* payload start).
C19_DoubleFree ==
    [][(/\ calls' = calls + 1
        /\ res'.op = "deallocate"
        /\ res'.p \in freed) =>
           /\ res'.outcome = "invalid_argument"
           /\ a' = a
      ]_vars

\* a rejected second deallocate(p) of a block that the first deallocate(p)
\* had coalesced into its left neighbour
C19_Witness ==
    /\ res.op = "deallocate" /\ res.outcome = "invalid_argument"
    /\ res.p \in freed
    /\ ~pointer_valid(a, N, res.p)
    /\ RdInt(a, res.p - 2 * SizeofInt) > 0

\* C20: an outstanding allocation is not disturbed by calls on other blocks:
\* across every allocate and every deallocate of a different pointer the
\* header at p - sizeof(int) and the footer of p's block keep their (equal,
\* negative) value, and deallocate(p) of an outstanding p succeeds.
C20_OutstandingUndisturbed ==
    [][calls' = calls + 1 =>
          \A p \in DOMAIN out :
              IF res'.op = "deallocate" /\ res'.p = p
              THEN res'.outcome = "ok"
              ELSE \E h \in {RdInt(a, p - SizeofInt)} :
                       /\ h < 0
                       /\ RdInt(a, p - h) = h
                       /\ RdInt(a', p - SizeofInt) = h
                       /\ RdInt(a', p - h) = h
      ]_vars

====
